---- MODULE Spec2Model ----
(***************************************************************************)
(* axum-typed-websockets (src/src/lib.rs): the typed WebSocket adapter.    *)
(*                                                                         *)
(* WebSocket<S, R, C> owns one axum ws::WebSocket (field `socket`) and a   *)
(* zero-sized marker; it has no other field.  Every operation forwards to  *)
(* the owned socket, with the codec C applied to Message::Item.            *)
(*                                                                         *)
(* The owned socket is the environment of the adapter.  It is modelled by  *)
(* the Stream/Sink interface the adapter calls: every call may return any  *)
(* outcome that interface allows (a frame, an error, Pending, the end of   *)
(* the stream), chosen by the environment.  The end of the stream is a     *)
(* state of the transport (ended): an exhausted stream stays exhausted,    *)
(* and the stream of axum's socket is exhausted once it has returned the   *)
(* end or a read error.                                                    *)
(*                                                                         *)
(* Payloads are sequences of bytes.  Application values (the types S and   *)
(* R) are the integers 0..MaxValue; Unserializable is a value of S whose   *)
(* Serialize implementation returns an error, NonFinite a value that JSON  *)
(* cannot represent (a non-finite float).                                  *)
(*                                                                         *)
(* Four specifications share the definitions:                              *)
(*   Spec       one adapter on its socket, operations in any order;       *)
(*   SpecCodec  the codecs alone, applied to values and to payloads;       *)
(*   SpecUpgrade  WebSocketUpgrade: requests being upgraded side by side;  *)
(*   SpecStream the adapter on a socket that queues the peer's frames,     *)
(*              with the frames read and written recorded in order and     *)
(*              with futures dropped before they resolve.                  *)
(***************************************************************************)
EXTENDS Integers, Sequences, FiniteSets, TLC

\* ------------------------------------------------------------------ bounds
MaxValue  == 1     \* application values are 0..MaxValue
MaxWire   == 1     \* frames the transport accepts for writing
MaxLen    == 2     \* bytes of a payload handed to decode
MaxRequests == 3   \* inbound requests being upgraded
MaxIn     == 2     \* SpecStream: frames the peer sends
MaxOut    == 2     \* SpecStream: frames the transport accepts for writing

\* ------------------------------------------------------------- byte values
Byte0       == 48  \* the character '0'
ByteSpace   == 32  \* the character ' '
FixintMax   == 127 \* MessagePack: largest positive fixint marker
MarkerU8    == 204 \* MessagePack: 0xcc, the marker of an 8-bit unsigned integer
MarkerF64   == 203 \* MessagePack: 0xcb, the marker of a 64-bit float

GoodValues     == 0 .. MaxValue
Unserializable == MaxValue + 1
Values         == GoodValues \cup {Unserializable}
NonFinite      == MaxValue + 2
CodecValues    == Values \cup {NonFinite}

\* The JSON text of a non-finite float, and the bits of f64::INFINITY.
JsonNull     == <<110, 117, 108, 108>>
InfinityBits == <<127, 240, 0, 0, 0, 0, 0, 0>>

\* ------------------------------------------------------------------ frames
\* ws::Message, the raw frame of the transport.  body is the payload; for
\* Close it is <<>> (None) or <<code>> (Some(CloseFrame)).
Frame(k, b) == [kind |-> k, body |-> b]
NoFrame     == Frame("", <<>>)

\* Message<T>: Item(T) | Ping | Pong | Close.  An Item carries <<value>>.
Message(k, b) == [kind |-> k, body |-> b]
Item(v)       == Message("Item", <<v>>)

\* TextOrBinary, the intermediate payload of a codec.
TextOrBinary(k, b) == [kind |-> k, body |-> b]

\* Result<_, _> of a codec call.
CodecOk(x)  == [ok |-> TRUE, val |-> x, err |-> ""]
CodecErr(e) == [ok |-> FALSE, val |-> NoFrame, err |-> e]

\* ------------------------------------------------------------- serde_json
IsDigit(b) == b >= Byte0 /\ b <= Byte0 + 9

RECURSIVE TrimLeft(_)
TrimLeft(s) ==
    IF s # <<>> /\ Head(s) = ByteSpace THEN TrimLeft(Tail(s)) ELSE s

RECURSIVE TrimRight(_)
TrimRight(s) ==
    IF s # <<>> /\ s[Len(s)] = ByteSpace
    THEN TrimRight(SubSeq(s, 1, Len(s) - 1)) ELSE s

RECURSIVE DigitsValue(_)
DigitsValue(s) ==
    IF s = <<>> THEN 0
    ELSE 10 * DigitsValue(SubSeq(s, 1, Len(s) - 1)) + (s[Len(s)] - Byte0)

\* serde_json::to_string / to_vec of a value: its decimal digits.
RECURSIVE JsonDigits(_)
JsonDigits(n) ==
    IF n < 10 THEN <<Byte0 + n>>
    ELSE Append(JsonDigits(n \div 10), Byte0 + (n % 10))

JsonSerialize(v) ==
    IF v = Unserializable THEN [ok |-> FALSE, bytes |-> <<>>, err |-> "serialize"]
    ELSE IF v = NonFinite THEN [ok |-> TRUE, bytes |-> JsonNull, err |-> ""]
    ELSE [ok |-> TRUE, bytes |-> JsonDigits(v), err |-> ""]

\* serde_json::from_str / from_slice into R: optional whitespace, one number
\* without a leading zero, no trailing characters, in the range of R; null
\* is not a number.
JsonParse(bytes) ==
    LET t == TrimRight(TrimLeft(bytes)) IN
    IF t = <<>> THEN [ok |-> FALSE, val |-> 0, err |-> "eof"]
    ELSE IF t = JsonNull THEN [ok |-> FALSE, val |-> 0, err |-> "type"]
    ELSE IF \E i \in 1 .. Len(t) : ~IsDigit(t[i])
    THEN [ok |-> FALSE, val |-> 0, err |-> "syntax"]
    ELSE IF Len(t) > 1 /\ t[1] = Byte0
    THEN [ok |-> FALSE, val |-> 0, err |-> "trailing"]
    ELSE IF DigitsValue(t) \notin GoodValues
    THEN [ok |-> FALSE, val |-> 0, err |-> "range"]
    ELSE [ok |-> TRUE, val |-> DigitsValue(t), err |-> ""]

\* from_str reads a String, from_slice a byte slice: the same parser.
JsonFromStr(txt)   == JsonParse(txt)
JsonFromSlice(bin) == JsonParse(bin)

\* -------------------------------------------------------------- rmp_serde
\* rmp_serde::encode::to_vec: a small integer is one positive-fixint byte.
MsgPackSerialize(v) ==
    IF v = Unserializable THEN [ok |-> FALSE, bytes |-> <<>>, err |-> "serialize"]
    ELSE IF v = NonFinite THEN [ok |-> TRUE, bytes |-> <<MarkerF64>> \o InfinityBits, err |-> ""]
    ELSE IF v <= FixintMax THEN [ok |-> TRUE, bytes |-> <<v>>, err |-> ""]
    ELSE [ok |-> TRUE, bytes |-> <<MarkerU8, v>>, err |-> ""]

\* rmp_serde::decode::from_slice into R: reads one value from the front.
MsgPackParse(bytes) ==
    LET got == IF bytes = <<>> THEN -1
               ELSE IF bytes[1] <= FixintMax THEN bytes[1]
               ELSE IF bytes[1] = MarkerU8 THEN (IF Len(bytes) >= 2 THEN bytes[2] ELSE -1)
               ELSE IF bytes[1] = MarkerF64
               THEN (IF Len(bytes) < 1 + Len(InfinityBits) THEN -1
                     ELSE IF SubSeq(bytes, 2, 1 + Len(InfinityBits)) = InfinityBits
                     THEN -3 ELSE -2)
               ELSE -2
    IN  IF got = -1 THEN [ok |-> FALSE, val |-> 0, err |-> "eof"]
        ELSE IF got = -2 THEN [ok |-> FALSE, val |-> 0, err |-> "type"]
        ELSE IF got = -3 THEN [ok |-> TRUE, val |-> NonFinite, err |-> ""]
        ELSE IF got \notin GoodValues THEN [ok |-> FALSE, val |-> 0, err |-> "range"]
        ELSE [ok |-> TRUE, val |-> got, err |-> ""]

\* ------------------------------------------------------------------ codecs
Codecs == {"TextJsonCodec", "BinaryJsonCodec", "MsgPackCodec"}

TextJsonCodec_encode(v) ==
    LET s == JsonSerialize(v) IN
    IF s.ok THEN CodecOk(TextOrBinary("Text", s.bytes)) ELSE CodecErr(s.err)

\* Faulty variant of BinaryJsonCodec_encode: the MessagePack serializer used.
BinaryJsonCodec_encode_msgpack(v) ==
    LET s == MsgPackSerialize(v) IN
    IF s.ok THEN CodecOk(TextOrBinary("Binary", s.bytes)) ELSE CodecErr(s.err)

BinaryJsonCodec_encode(v) ==
    LET s == JsonSerialize(v) IN
    IF s.ok THEN CodecOk(TextOrBinary("Binary", s.bytes)) ELSE CodecErr(s.err)

MsgPackCodec_encode(v) ==
    LET s == MsgPackSerialize(v) IN
    IF s.ok THEN CodecOk(TextOrBinary("Binary", s.bytes)) ELSE CodecErr(s.err)

\* String::as_bytes: the UTF-8 bytes of a text.
as_bytes(txt) == txt

\* Faulty variant of TextJsonCodec_decode: a Binary payload is refused.
TextJsonCodec_decode_text_only(p) ==
    LET r == CASE p.kind = "Text"   -> JsonFromStr(p.body)
               [] p.kind = "Binary" -> [ok |-> FALSE, val |-> 0, err |-> "binary"]
    IN  IF r.ok THEN CodecOk(Item(r.val)) ELSE CodecErr(r.err)

\* The two arms of each decode: the Text arm and the Binary arm.
TextJsonCodec_decode(p) ==
    LET r == CASE p.kind = "Text"   -> JsonFromStr(p.body)
               [] p.kind = "Binary" -> JsonFromSlice(p.body)
    IN  IF r.ok THEN CodecOk(Item(r.val)) ELSE CodecErr(r.err)

BinaryJsonCodec_decode(p) ==
    LET r == CASE p.kind = "Text"   -> JsonFromStr(p.body)
               [] p.kind = "Binary" -> JsonFromSlice(p.body)
    IN  IF r.ok THEN CodecOk(Item(r.val)) ELSE CodecErr(r.err)

MsgPackCodec_decode(p) ==
    LET r == CASE p.kind = "Text"   -> MsgPackParse(as_bytes(p.body))
               [] p.kind = "Binary" -> MsgPackParse(p.body)
    IN  IF r.ok THEN CodecOk(Item(r.val)) ELSE CodecErr(r.err)

\* C::encode and C::decode for the adapter's codec parameter c.
Encode(c, v) ==
    CASE c = "TextJsonCodec"   -> TextJsonCodec_encode(v)
      [] c = "BinaryJsonCodec" -> BinaryJsonCodec_encode(v)
      [] c = "MsgPackCodec"    -> MsgPackCodec_encode(v)

Decode(c, p) ==
    CASE c = "TextJsonCodec"   -> TextJsonCodec_decode(p)
      [] c = "BinaryJsonCodec" -> BinaryJsonCodec_decode(p)
      [] c = "MsgPackCodec"    -> MsgPackCodec_decode(p)

\* ----------------------------------------------------------------- results
\* Option<Result<Message<R>, Error<E>>> of recv, Result<(), Error<E>> of send
\* and close.  tag: "Ok", "Err" or "None"; err: "Ws" or "Codec" with the
\* codec's error in detail; kind/body: the message of an Ok.
Ok(m)        == [tag |-> "Ok", kind |-> m.kind, body |-> m.body, err |-> "", detail |-> ""]
OkUnit       == [tag |-> "Ok", kind |-> "", body |-> <<>>, err |-> "", detail |-> ""]
ErrWs        == [tag |-> "Err", kind |-> "", body |-> <<>>, err |-> "Ws", detail |-> ""]
ErrCodec(e)  == [tag |-> "Err", kind |-> "", body |-> <<>>, err |-> "Codec", detail |-> e]
None         == [tag |-> "None", kind |-> "", body |-> <<>>, err |-> "", detail |-> ""]
NoResult     == [tag |-> "", kind |-> "", body |-> <<>>, err |-> "", detail |-> ""]

\* One call the adapter makes during a poll: a transport call or a codec call.
Call(f, o, fr) == [fn |-> f, out |-> o, frame |-> fr]

\* What a poll of the adapter returns: Poll::Pending (ready = FALSE) or
\* Poll::Ready(res), with the calls it made and the frames the transport took.
Pending(cs)      == [ready |-> FALSE, res |-> NoResult, calls |-> cs, taken |-> <<>>]
Ready(r, cs, tk) == [ready |-> TRUE, res |-> r, calls |-> cs, taken |-> tk]

\* --------------------------------------------------- impl Stream: poll_next
ControlKinds == {"Close", "Ping", "Pong"}

\* Faulty variant of control_frame: the Ping and Pong arms exchanged.
control_frame_swapped(f, tc) ==
    Ready(Ok(Message(CASE f.kind = "Ping" -> "Pong" [] f.kind = "Pong" -> "Ping"
                       [] OTHER -> f.kind, f.body)), tc, <<>>)

\* Faulty variant of control_frame: the frame is taken from the transport
\* and not yielded.
control_frame_skipped(f, tc) ==
    Pending(tc)

\* Faulty variant of control_frame: a Close frame taken for the end of the
\* stream.
control_frame_close_ends(f, tc) ==
    IF f.kind = "Close" THEN Ready(None, tc, <<>>)
    ELSE Ready(Ok(Message(f.kind, f.body)), tc, <<>>)

\* The Close, Ping and Pong arms of the match: the frame as the Message of
\* the same variant, returned at once.
control_frame(f, tc) ==
    Ready(Ok(Message(f.kind, f.body)), tc, <<>>)

\* Faulty variant of data_frame: a frame that does not decode is dropped and
\* the poll waits for the next one.
data_frame_drops_bad(c, f, tc) ==
    LET d == Decode(c, TextOrBinary(f.kind, f.body)) IN
    IF d.ok THEN Ready(Ok(d.val), Append(tc, Call("decode", "Ok", f)), <<>>)
    ELSE Pending(Append(tc, Call("decode", "Err", f)))

\* Faulty variant of data_frame: a frame that does not decode ends the stream.
data_frame_bad_ends(c, f, tc) ==
    LET d == Decode(c, TextOrBinary(f.kind, f.body)) IN
    IF d.ok THEN Ready(Ok(d.val), Append(tc, Call("decode", "Ok", f)), <<>>)
    ELSE Ready(None, Append(tc, Call("decode", "Err", f)), <<>>)

\* The Text and Binary arms, then C::decode(msg).map(Item).map_err(Codec).
data_frame(c, f, tc) ==
    LET d == Decode(c, TextOrBinary(f.kind, f.body)) IN
    IF d.ok THEN Ready(Ok(d.val), Append(tc, Call("decode", "Ok", f)), <<>>)
    ELSE Ready(ErrCodec(d.err), Append(tc, Call("decode", "Err", f)), <<>>)

\* Faulty variant of poll_next: the end of the stream reported as an error.
poll_next_error_at_end(c, t) ==
    LET tc == <<Call("ws.poll_next", t.out, t.frame)>> IN
    CASE t.out = "Pending" -> Pending(tc)
      [] t.out = "Err"     -> Ready(ErrWs, tc, <<>>)
      [] t.out = "None"    -> Ready(ErrWs, tc, <<>>)
      [] t.out = "Frame"   ->
           IF t.frame.kind \in ControlKinds THEN control_frame(t.frame, tc)
           ELSE data_frame(c, t.frame, tc)

\* Faulty variant of poll_next: a transport error is swallowed and the poll
\* is left to be made again.
poll_next_swallows_error(c, t) ==
    LET tc == <<Call("ws.poll_next", t.out, t.frame)>> IN
    CASE t.out = "Pending" -> Pending(tc)
      [] t.out = "Err"     -> Pending(tc)
      [] t.out = "None"    -> Ready(None, tc, <<>>)
      [] t.out = "Frame"   ->
           IF t.frame.kind \in ControlKinds THEN control_frame(t.frame, tc)
           ELSE data_frame(c, t.frame, tc)

\* t is what the transport's poll_next returned: [out, frame] with out
\* "Pending", "Frame" (Some(Ok(frame))), "Err" (Some(Err(_))) or "None".
poll_next(c, t) ==
    LET tc == <<Call("ws.poll_next", t.out, t.frame)>> IN
    CASE t.out = "Pending" -> Pending(tc)
      [] t.out = "Err"     -> Ready(ErrWs, tc, <<>>)
      [] t.out = "None"    -> Ready(None, tc, <<>>)
      [] t.out = "Frame"   ->
           IF t.frame.kind \in ControlKinds THEN control_frame(t.frame, tc)
           ELSE data_frame(c, t.frame, tc)

\* ------------------------------------------------------------- impl Sink
\* Faulty variant of poll_ready: the stream is polled on the way.
poll_ready_reads_stream(ro) ==
    LET tc == <<Call("ws.poll_next", "Pending", NoFrame), Call("ws.poll_ready", ro, NoFrame)>> IN
    CASE ro = "Pending" -> Pending(tc)
      [] ro = "Err"     -> Ready(ErrWs, tc, <<>>)
      [] ro = "Ok"      -> Ready(OkUnit, tc, <<>>)

\* ro, so, fo, co: what the transport's poll_ready, start_send, poll_flush
\* and poll_close return ("Ok", "Err", or "Pending" for the polls).
poll_ready(ro) ==
    LET tc == <<Call("ws.poll_ready", ro, NoFrame)>> IN
    CASE ro = "Pending" -> Pending(tc)
      [] ro = "Err"     -> Ready(ErrWs, tc, <<>>)
      [] ro = "Ok"      -> Ready(OkUnit, tc, <<>>)

\* Faulty variant of FromTextOrBinary: every payload sent as Binary.
FromTextOrBinary_always_binary(p) ==
    Frame("Binary", p.body)

\* impl From<TextOrBinary> for ws::Message
FromTextOrBinary(p) ==
    CASE p.kind = "Text"   -> Frame("Text", p.body)
      [] p.kind = "Binary" -> Frame("Binary", p.body)

\* Faulty variant of to_raw: the Ping and Pong arms exchanged.
to_raw_swapped(c, msg) ==
    IF msg.kind = "Item"
    THEN LET e == Encode(c, msg.body[1]) IN
         IF e.ok
         THEN [ok |-> TRUE, frame |-> FromTextOrBinary(e.val), err |-> "",
               calls |-> <<Call("encode", "Ok", NoFrame)>>]
         ELSE [ok |-> FALSE, frame |-> NoFrame, err |-> e.err,
               calls |-> <<Call("encode", "Err", NoFrame)>>]
    ELSE [ok |-> TRUE, err |-> "", calls |-> <<>>,
          frame |-> Frame(CASE msg.kind = "Ping" -> "Pong" [] msg.kind = "Pong" -> "Ping"
                            [] OTHER -> msg.kind, msg.body)]

\* The match of start_send: the raw frame of a message, [ok, frame, err]
\* with the codec calls made.
to_raw(c, msg) ==
    IF msg.kind = "Item"
    THEN LET e == Encode(c, msg.body[1]) IN
         IF e.ok
         THEN [ok |-> TRUE, frame |-> FromTextOrBinary(e.val), err |-> "",
               calls |-> <<Call("encode", "Ok", NoFrame)>>]
         ELSE [ok |-> FALSE, frame |-> NoFrame, err |-> e.err,
               calls |-> <<Call("encode", "Err", NoFrame)>>]
    ELSE [ok |-> TRUE, frame |-> Frame(msg.kind, msg.body), err |-> "", calls |-> <<>>]

\* Faulty variant of start_send: an encode failure is ignored and an empty
\* frame is sent in its place.
start_send_sends_garbage(c, msg, so) ==
    LET m  == to_raw(c, msg)
        fr == IF m.ok THEN m.frame ELSE Frame("Text", <<>>)
    IN  IF so = "Err"
        THEN Ready(ErrWs, Append(m.calls, Call("ws.start_send", "Err", fr)), <<>>)
        ELSE Ready(OkUnit, Append(m.calls, Call("ws.start_send", "Ok", fr)), <<fr>>)

\* start_send: the raw frame of the message, or the codec's error through
\* `?`; then the transport's start_send, its error mapped to Error::Ws.
start_send(c, msg, so) ==
    LET m == to_raw(c, msg) IN
    IF ~m.ok THEN Ready(ErrCodec(m.err), m.calls, <<>>)
    ELSE IF so = "Err"
    THEN Ready(ErrWs, Append(m.calls, Call("ws.start_send", "Err", m.frame)), <<>>)
    ELSE Ready(OkUnit, Append(m.calls, Call("ws.start_send", "Ok", m.frame)), <<m.frame>>)

\* Faulty variant of poll_flush: a completed flush of the transport is
\* reported as Pending.
poll_flush_defers(fo) ==
    LET tc == <<Call("ws.poll_flush", fo, NoFrame)>> IN
    CASE fo = "Pending" -> Pending(tc)
      [] fo = "Err"     -> Ready(ErrWs, tc, <<>>)
      [] fo = "Ok"      -> Pending(tc)

poll_flush(fo) ==
    LET tc == <<Call("ws.poll_flush", fo, NoFrame)>> IN
    CASE fo = "Pending" -> Pending(tc)
      [] fo = "Err"     -> Ready(ErrWs, tc, <<>>)
      [] fo = "Ok"      -> Ready(OkUnit, tc, <<>>)

poll_close(co) ==
    LET tc == <<Call("ws.poll_close", co, NoFrame)>> IN
    CASE co = "Pending" -> Pending(tc)
      [] co = "Err"     -> Ready(ErrWs, tc, <<>>)
      [] co = "Ok"      -> Ready(OkUnit, tc, <<>>)

\* Faulty variant of send: Ok(()) is returned once the frame is handed to the
\* transport, without a flush.
send_without_flush(c, phase, msg, ro, so, fo) ==
    LET r == poll_ready(ro)
        s == start_send(c, msg, so)
    IN  IF phase = "flush" THEN poll_flush(fo)
        ELSE IF ~r.ready \/ r.res.tag = "Err" THEN r
        ELSE IF s.res.tag = "Err" THEN Ready(s.res, r.calls \o s.calls, <<>>)
        ELSE Ready(OkUnit, r.calls \o s.calls, s.taken)

\* One poll of the future of WebSocket::send (SinkExt::send): while the item
\* is still held (phase "feed") poll_ready then start_send, then poll_flush.
send(c, phase, msg, ro, so, fo) ==
    LET r == poll_ready(ro)
        s == start_send(c, msg, so)
        f == poll_flush(fo)
    IN  IF phase = "flush"
        THEN f
        ELSE IF ~r.ready \/ r.res.tag = "Err" THEN r
        ELSE IF s.res.tag = "Err" THEN Ready(s.res, r.calls \o s.calls, <<>>)
        ELSE IF ~f.ready THEN [f EXCEPT !.calls = r.calls \o s.calls \o f.calls,
                                        !.taken = s.taken]
        ELSE Ready(f.res, r.calls \o s.calls \o f.calls, s.taken)

\* One poll of the future of WebSocket::recv: self.next().
recv(c, t) == poll_next(c, t)

\* Faulty variant of close: a failure of the transport's close reported as a
\* codec error.
close_codec_error(co) ==
    LET tc == <<Call("ws.poll_close", co, NoFrame)>> IN
    CASE co = "Pending" -> Pending(tc)
      [] co = "Err"     -> Ready(ErrCodec("close"), tc, <<>>)
      [] co = "Ok"      -> Ready(OkUnit, tc, <<>>)

\* One poll of the future of WebSocket::close: the transport's close.
close(co) == poll_close(co)

\* -------------------------------------------------------------------- state
VARIABLES
    codec,    \* the type parameter C of the adapter
    alive,    \* "open"; "closing" while close() runs; "closed"; "unwrapped"
    ended,    \* the transport's stream is over: it returns None from now on
    wire,     \* the frames the transport has accepted for writing
    rpc,      \* the recv future: "idle" or "pending"
    spc,      \* the send future: "idle", "feed" or "flush"
    smsg,     \* the message the send future holds
    seen,     \* what the operations have returned so far (a set of tags)
    last,     \* the latest poll of the adapter: [op, msg, out]
    probe,    \* SpecCodec: a value, a payload and what the codec made of them
    up,       \* SpecUpgrade: per request, the stage of its upgrade
    est,      \* SpecUpgrade: the requests whose raw socket is established
    arrived,  \* SpecStream: the frames the peer has sent, in order
    inq,      \* SpecStream: those the transport holds, not yet read from it
    rawIn,    \* SpecStream: what the transport's poll_next has produced
    yielded,  \* SpecStream: what recv has returned, the final None aside
    started   \* SpecStream: the messages whose frame the transport accepted

vars == <<codec, alive, ended, wire, rpc, spc, smsg, seen, last, probe, up, est,
          arrived, inq, rawIn, yielded, started>>

\* The variables of the adapter on its socket, and those of the other
\* specifications, which Spec leaves alone.
session == <<alive, ended, wire, rpc, spc, smsg, seen, last>>
stream  == <<arrived, inq, rawIn, yielded, started>>
others  == <<probe, up, est, stream>>

NoStream ==
    /\ arrived = <<>> /\ inq = <<>> /\ rawIn = <<>>
    /\ yielded = <<>> /\ started = <<>>

\* The frames a peer may send, and the messages the application may send.
PeerFrames ==
    {Frame("Text", <<Byte0 + 1>>), Frame("Binary", <<1>>),
     Frame("Ping", <<7>>), Frame("Pong", <<7>>), Frame("Close", <<>>)}
SendMsgs ==
    {Item(v) : v \in Values}
    \cup {Message("Ping", <<7>>), Message("Pong", <<7>>), Message("Close", <<1000>>)}

NoMsg == Message("", <<>>)

\* What is remembered of a returned result: the two kinds of error and a
\* received Close.  Recv adds "recv.AfterEnd" for a recv that returns after
\* the transport had reported the end of its stream.
Tags(op, res) ==
    IF res.tag = "Err" THEN IF res.err = "Ws" THEN {"Ws"} ELSE {op \o ".Codec"}
    ELSE IF res.tag = "Ok" /\ res.kind = "Close" THEN {"recv.Close"}
    ELSE {}

\* A codec result that has not been computed.
NotRun == [ok |-> FALSE, val |-> NoFrame, err |-> "not run"]

NoProbe == [v |-> 0, b |-> <<>>, enc |-> NotRun, dec |-> NotRun,
            text |-> NotRun, binary |-> NotRun, peer |-> Pending(<<>>)]

\* The adapter as on_upgrade constructs it, on a socket just established.
InitSession ==
    /\ alive = "open"
    /\ ended = FALSE
    /\ wire = <<>>
    /\ rpc = "idle"
    /\ spc = "idle"
    /\ smsg = NoMsg
    /\ seen = {}
    /\ last = [op |-> "", msg |-> NoMsg, out |-> Pending(<<>>)]

\* The inbound requests.  stage: "new"; "extracted" (from_request_parts has
\* returned the WebSocketUpgrade) or "rejected"; "upgrading" (on_upgrade has
\* returned the response) or "raw" (into_inner); "running" (the callback has
\* been called), "done" (its future has completed) or "failed" (the
\* handshake did not complete).  ran: the calls of the callback; socket:
\* the request whose raw socket the callback's adapter wraps, 0 for none.
Requests   == 1 .. MaxRequests
NoUpgrades == [r \in Requests |-> [stage |-> "new", ran |-> 0, socket |-> 0]]

Init ==
    /\ codec \in Codecs
    /\ InitSession
    /\ probe = NoProbe
    /\ up = NoUpgrades /\ est = {}
    /\ NoStream

\* ---------------------------------------------------------- the transport
\* What the transport's poll_next may return: the end once its stream is
\* over; before that a frame, an error, Pending or the end.
ws_poll_next ==
    IF ended THEN {[out |-> "None", frame |-> NoFrame]}
    ELSE {[out |-> o, frame |-> NoFrame] : o \in {"Pending", "Err", "None"}}
         \cup {[out |-> "Frame", frame |-> f] : f \in PeerFrames}

\* What the transport's polls and its start_send may return.
PollOutcomes == {"Ok", "Err", "Pending"}

\* What the transport may return to the calls of one poll of a send future:
\* <<poll_ready, start_send, poll_flush>>, "-" for a call that is not made.
ws_send_outcomes(phase) ==
    IF phase = "flush" THEN {<<"-", "-", fo>> : fo \in PollOutcomes}
    ELSE {<<ro, "-", "-">> : ro \in {"Err", "Pending"}}
         \cup {<<"Ok", "Err", "-">>}
         \cup {<<"Ok", "Ok", fo>> : fo \in PollOutcomes}

\* ------------------------------------------------------------- operations
\* One poll of a recv future.
Recv(t) ==
    /\ alive = "open"
    /\ LET o == recv(codec, t) IN
           /\ last' = [op |-> "recv", msg |-> NoMsg, out |-> o]
           /\ rpc' = IF o.ready THEN "idle" ELSE "pending"
           /\ seen' = IF o.ready
                      THEN seen \cup Tags("recv", o.res)
                                \cup (IF ended THEN {"recv.AfterEnd"} ELSE {})
                      ELSE seen
           /\ ended' = (ended \/ t.out \in {"None", "Err"})
    /\ UNCHANGED <<codec, alive, wire, spc, smsg>>

\* send(msg) is called: the future holds the message.
SendCall(m) ==
    /\ alive = "open"
    /\ spc = "idle"
    /\ Len(wire) < MaxWire
    /\ spc' = "feed"
    /\ smsg' = m
    /\ UNCHANGED <<codec, alive, ended, wire, rpc, seen, last>>

\* One poll of the send future.
SendPoll(ro, so, fo) ==
    /\ alive = "open"
    /\ spc \in {"feed", "flush"}
    /\ LET o == send(codec, spc, smsg, ro, so, fo) IN
           /\ last' = [op |-> "send", msg |-> smsg, out |-> o]
           /\ wire' = wire \o o.taken
           /\ spc' = IF o.ready THEN "idle"
                     ELSE IF o.taken # <<>> THEN "flush" ELSE spc
           /\ smsg' = IF o.ready THEN NoMsg ELSE smsg
           /\ seen' = IF o.ready THEN seen \cup Tags("send", o.res) ELSE seen
    /\ UNCHANGED <<codec, alive, ended, rpc>>

\* close(mut self) and into_inner(self) take the adapter by value: no recv
\* or send future borrows it when they are called, none can afterwards.
CloseCall ==
    /\ alive = "open"
    /\ rpc = "idle" /\ spc = "idle"
    /\ alive' = "closing"
    /\ UNCHANGED <<codec, ended, wire, rpc, spc, smsg, seen, last>>

\* Faulty variant of ClosePoll: close(&mut self), the adapter left usable.
ClosePoll_by_reference(co) ==
    /\ alive = "closing"
    /\ LET o == close(co) IN
           /\ last' = [op |-> "close", msg |-> NoMsg, out |-> o]
           /\ alive' = IF o.ready THEN "open" ELSE alive
           /\ wire' = IF o.ready /\ o.res.tag = "Ok"
                      THEN Append(wire, Frame("Close", <<>>)) ELSE wire
           /\ seen' = IF o.ready THEN seen \cup Tags("close", o.res) ELSE seen
    /\ UNCHANGED <<codec, ended, rpc, spc, smsg>>

\* One poll of the close future.  The transport's close, when it succeeds,
\* has written its Close frame.  The future owns the adapter: when it
\* returns the adapter is gone.
ClosePoll(co) ==
    /\ alive = "closing"
    /\ LET o == close(co) IN
           /\ last' = [op |-> "close", msg |-> NoMsg, out |-> o]
           /\ alive' = IF o.ready THEN "closed" ELSE alive
           /\ wire' = IF o.ready /\ o.res.tag = "Ok"
                      THEN Append(wire, Frame("Close", <<>>)) ELSE wire
           /\ seen' = IF o.ready THEN seen \cup Tags("close", o.res) ELSE seen
    /\ UNCHANGED <<codec, ended, rpc, spc, smsg>>

\* Faulty variant of into_inner: callable while a future borrows the adapter.
into_inner_borrowed ==
    /\ alive = "open"
    /\ alive' = "unwrapped"
    /\ UNCHANGED <<codec, ended, wire, rpc, spc, smsg, seen, last>>

into_inner ==
    /\ alive = "open"
    /\ rpc = "idle" /\ spc = "idle"
    /\ alive' = "unwrapped"
    /\ UNCHANGED <<codec, ended, wire, rpc, spc, smsg, seen, last>>

Next ==
    \/ \E t \in ws_poll_next : Recv(t) /\ UNCHANGED others
    \/ \E m \in SendMsgs : SendCall(m) /\ UNCHANGED others
    \/ \E w \in ws_send_outcomes(spc) : SendPoll(w[1], w[2], w[3]) /\ UNCHANGED others
    \/ CloseCall /\ UNCHANGED others
    \/ \E co \in PollOutcomes : ClosePoll(co) /\ UNCHANGED others
    \/ into_inner /\ UNCHANGED others

Spec == Init /\ [][Next]_vars

\* ------------------------------------------------------- the codecs alone
\* The bytes payloads are made of: 0x01, ' ', '0', '1', the marker 0xcc and
\* the continuation byte 0x81.
Alphabet == {1, ByteSpace, Byte0, Byte0 + 1, MarkerU8, 129}
Payloads == UNION {[1 .. n -> Alphabet] : n \in 0 .. MaxLen}

\* The contents a String can have: well-formed UTF-8, here of sequences of
\* one byte and of two bytes.
RECURSIVE IsUtf8(_)
IsUtf8(b) ==
    IF b = <<>> THEN TRUE
    ELSE IF b[1] <= 127 THEN IsUtf8(Tail(b))
    ELSE IF b[1] >= 194 /\ b[1] <= 223 /\ Len(b) >= 2 /\ b[2] >= 128 /\ b[2] <= 191
    THEN IsUtf8(Tail(Tail(b)))
    ELSE FALSE

InitCodec ==
    /\ codec \in Codecs
    /\ InitSession
    /\ probe \in {[NoProbe EXCEPT !.v = v, !.b = b] : v \in CodecValues, b \in Payloads}
    /\ up = NoUpgrades /\ est = {}
    /\ NoStream

\* C::encode(v)
ProbeEncode ==
    /\ probe.enc = NotRun
    /\ probe' = [probe EXCEPT !.enc = Encode(codec, probe.v)]
    /\ UNCHANGED <<codec, session, up, est, stream>>

\* C::decode of the payload encode produced.
ProbeDecode ==
    /\ probe.enc.ok /\ probe.dec = NotRun
    /\ probe' = [probe EXCEPT !.dec = Decode(codec, probe.enc.val)]
    /\ UNCHANGED <<codec, session, up, est, stream>>

\* C::decode(TextOrBinary::Text(b)), for a b that a String can hold.
ProbeDecodeText ==
    /\ IsUtf8(probe.b) /\ probe.text = NotRun
    /\ probe' = [probe EXCEPT !.text = Decode(codec, TextOrBinary("Text", probe.b))]
    /\ UNCHANGED <<codec, session, up, est, stream>>

\* C::decode(TextOrBinary::Binary(b))
ProbeDecodeBinary ==
    /\ probe.binary = NotRun
    /\ probe' = [probe EXCEPT !.binary = Decode(codec, TextOrBinary("Binary", probe.b))]
    /\ UNCHANGED <<codec, session, up, est, stream>>

\* Item(v) sent through one adapter, whose transport accepts the frame, and
\* that frame delivered to the poll_next of a peer adapter with the same codec.
ProbePeer ==
    /\ ~probe.peer.ready
    /\ LET s == start_send(codec, Item(probe.v), "Ok") IN
           probe' = [probe EXCEPT !.peer =
               IF s.taken = <<>> THEN s
               ELSE poll_next(codec, [out |-> "Frame", frame |-> s.taken[1]])]
    /\ UNCHANGED <<codec, session, up, est, stream>>

NextCodec ==
    \/ ProbeEncode
    \/ ProbeDecode
    \/ ProbeDecodeText
    \/ ProbeDecodeBinary
    \/ ProbePeer

SpecCodec == InitCodec /\ [][NextCodec]_vars

\* ------------------------------------------------------- WebSocketUpgrade
InitUpgrade ==
    /\ codec \in Codecs
    /\ InitSession
    /\ probe = NoProbe
    /\ up = NoUpgrades /\ est = {}
    /\ NoStream

\* from_request_parts: the WebSocketUpgrade of the request, or the rejection
\* of axum's extractor.
from_request_parts(r, ok) ==
    /\ up[r].stage = "new"
    /\ up' = [up EXCEPT ![r].stage = IF ok THEN "extracted" ELSE "rejected"]
    /\ UNCHANGED <<codec, session, probe, est, stream>>

\* on_upgrade(self, callback): the closure holding the callback is handed to
\* axum's on_upgrade and the response is returned.
on_upgrade(r) ==
    /\ up[r].stage = "extracted"
    /\ up' = [up EXCEPT ![r].stage = "upgrading"]
    /\ UNCHANGED <<codec, session, probe, est, stream>>

\* WebSocketUpgrade::into_inner(self): the raw upgrade, no typed callback.
upgrade_into_inner(r) ==
    /\ up[r].stage = "extracted"
    /\ up' = [up EXCEPT ![r].stage = "raw"]
    /\ UNCHANGED <<codec, session, probe, est, stream>>

\* The transport completes the handshake of the request: its raw socket is
\* established.
Established(r) ==
    /\ up[r].stage = "upgrading" /\ r \notin est
    /\ est' = est \cup {r}
    /\ UNCHANGED <<codec, session, probe, up, stream>>

\* The handshake of the request does not complete: the transport drops the
\* closure without calling it.
UpgradeFailed(r) ==
    /\ up[r].stage = "upgrading" /\ r \notin est
    /\ up' = [up EXCEPT ![r].stage = "failed"]
    /\ UNCHANGED <<codec, session, probe, est, stream>>

\* Faulty variant of upgrade_closure: the adapter built around the socket of
\* whichever request is established.
upgrade_closure_any_socket(r) ==
    /\ up[r].stage = "upgrading" /\ r \in est
    /\ \E q \in est :
           up' = [up EXCEPT ![r] = [stage |-> "running", ran |-> up[r].ran + 1, socket |-> q]]
    /\ UNCHANGED <<codec, session, probe, est, stream>>

\* The closure given to axum's on_upgrade, called with the established
\* socket: WebSocket { socket, _marker } and callback(socket).  The closure
\* and the callback are FnOnce.
upgrade_closure(r) ==
    /\ up[r].stage = "upgrading" /\ r \in est
    /\ up' = [up EXCEPT ![r] = [stage |-> "running", ran |-> up[r].ran + 1, socket |-> r]]
    /\ UNCHANGED <<codec, session, probe, est, stream>>

\* callback(socket).await completes.
callback_done(r) ==
    /\ up[r].stage = "running"
    /\ up' = [up EXCEPT ![r].stage = "done"]
    /\ UNCHANGED <<codec, session, probe, est, stream>>

NextUpgrade ==
    \/ \E r \in Requests : \E ok \in BOOLEAN : from_request_parts(r, ok)
    \/ \E r \in Requests : on_upgrade(r)
    \/ \E r \in Requests : upgrade_into_inner(r)
    \/ \E r \in Requests : Established(r)
    \/ \E r \in Requests : UpgradeFailed(r)
    \/ \E r \in Requests : upgrade_closure(r)
    \/ \E r \in Requests : callback_done(r)

SpecUpgrade == InitUpgrade /\ [][NextUpgrade]_vars

\* ------------------------------------------- the adapter on a queueing socket
\* The frames the peer sends and the messages the application sends.
StreamFrames ==
    {Frame("Text", <<Byte0 + MaxValue>>), Frame("Ping", <<7>>)}
StreamMsgs ==
    {Item(MaxValue), Item(Unserializable), Message("Ping", <<7>>)}

InitStream ==
    /\ codec \in Codecs
    /\ InitSession
    /\ probe = NoProbe
    /\ up = NoUpgrades /\ est = {}
    /\ NoStream

\* What the poll_next of a socket that queues the peer's frames may return:
\* the oldest frame it holds; with none, Pending, an error or the end.
ws_poll_next_queued ==
    IF ended THEN {[out |-> "None", frame |-> NoFrame]}
    ELSE IF inq # <<>> THEN {[out |-> "Frame", frame |-> Head(inq)]}
    ELSE {[out |-> o, frame |-> NoFrame] : o \in {"Pending", "Err", "None"}}

\* The peer sends a frame: the transport holds it.
Arrive(f) ==
    /\ alive \in {"open", "unwrapped"}
    /\ ~ended
    /\ Len(arrived) < MaxIn
    /\ arrived' = Append(arrived, f)
    /\ inq' = Append(inq, f)
    /\ UNCHANGED <<codec, session, probe, up, est, rawIn, yielded, started>>

\* One poll of a recv future, with what the transport produced and what the
\* poll returned recorded.
StreamRecv(t) ==
    /\ alive = "open"
    /\ LET o == recv(codec, t) IN
           /\ last' = [op |-> "recv", msg |-> NoMsg, out |-> o]
           /\ rpc' = IF o.ready THEN "idle" ELSE "pending"
           /\ yielded' = IF o.ready /\ o.res.tag # "None"
                         THEN Append(yielded, o.res) ELSE yielded
    /\ ended' = (ended \/ t.out \in {"None", "Err"})
    /\ inq' = IF t.out = "Frame" THEN Tail(inq) ELSE inq
    /\ rawIn' = IF t.out \in {"Frame", "Err"}
                THEN Append(rawIn, [out |-> t.out, frame |-> t.frame]) ELSE rawIn
    /\ UNCHANGED <<codec, alive, wire, spc, smsg, seen, probe, up, est, arrived, started>>

\* send(msg) is called.
StreamSendCall(m) ==
    /\ alive = "open"
    /\ spc = "idle"
    /\ Len(started) < MaxOut
    /\ spc' = "feed"
    /\ smsg' = m
    /\ UNCHANGED <<codec, alive, ended, wire, rpc, seen, last, others>>

\* One poll of the send future, with the message recorded once the
\* transport has accepted its frame.
StreamSendPoll(ro, so, fo) ==
    /\ alive = "open"
    /\ spc \in {"feed", "flush"}
    /\ LET o == send(codec, spc, smsg, ro, so, fo) IN
           /\ last' = [op |-> "send", msg |-> smsg, out |-> o]
           /\ wire' = wire \o o.taken
           /\ spc' = IF o.ready THEN "idle"
                     ELSE IF o.taken # <<>> THEN "flush" ELSE spc
           /\ smsg' = IF o.ready THEN NoMsg ELSE smsg
           /\ started' = IF o.taken # <<>> THEN Append(started, smsg) ELSE started
    /\ UNCHANGED <<codec, alive, ended, rpc, seen, probe, up, est, arrived, inq, rawIn, yielded>>

\* Faulty variant of DropRecv: dropping the future discards the oldest frame
\* the transport holds.
DropRecv_loses_frame ==
    /\ alive = "open"
    /\ rpc = "pending"
    /\ rpc' = "idle"
    /\ seen' = seen \cup {"recv.Dropped"}
    /\ last' = [op |-> "drop recv", msg |-> NoMsg, out |-> Pending(<<>>)]
    /\ inq' = IF inq = <<>> THEN inq ELSE Tail(inq)
    /\ UNCHANGED <<codec, alive, ended, wire, spc, smsg, probe, up, est,
                    arrived, rawIn, yielded, started>>

\* The recv future is dropped before it resolves.  It holds the borrow of
\* the adapter and nothing else.
DropRecv ==
    /\ alive = "open"
    /\ rpc = "pending"
    /\ rpc' = "idle"
    /\ seen' = seen \cup {"recv.Dropped"}
    /\ last' = [op |-> "drop recv", msg |-> NoMsg, out |-> Pending(<<>>)]
    /\ UNCHANGED <<codec, alive, ended, wire, spc, smsg, others>>

\* The send future is dropped before it resolves: with the message it still
\* holds, or after the transport has accepted the frame.
DropSend ==
    /\ alive = "open"
    /\ spc \in {"feed", "flush"}
    /\ spc' = "idle"
    /\ smsg' = NoMsg
    /\ seen' = seen \cup {"send.Dropped"}
    /\ last' = [op |-> "drop send", msg |-> smsg, out |-> Pending(<<>>)]
    /\ UNCHANGED <<codec, alive, ended, wire, rpc, others>>

NextStream ==
    \/ \E f \in StreamFrames : Arrive(f)
    \/ \E t \in ws_poll_next_queued : StreamRecv(t)
    \/ \E m \in StreamMsgs : StreamSendCall(m)
    \/ \E w \in ws_send_outcomes(spc) : StreamSendPoll(w[1], w[2], w[3])
    \/ DropRecv
    \/ DropSend
    \/ into_inner /\ UNCHANGED others

SpecStream == InitStream /\ [][NextStream]_vars

\* ================================================================== claims
\* The calls of the latest poll to the function fn, in order.
CallsTo(o, fn) == SelectSeq(o.calls, LAMBDA k : k.fn = fn)

\* The steps of the three futures.  Recv is the only action that sets
\* last.op to "recv" and leaves alive, spc, smsg and wire alone; SendPoll is
\* the only one that sets last.op to "send" while a send future exists.
RecvStep  == alive = "open" /\ last'.op = "recv" /\ UNCHANGED <<alive, spc, smsg, wire>>
SendStep  == alive = "open" /\ spc # "idle" /\ last'.op = "send"

\* The frame the latest recv poll got from the transport, if it got one.
RecvGot(o)  == CallsTo(o, "ws.poll_next")[1]
GotFrame(o, kinds) ==
    /\ CallsTo(o, "ws.poll_next") # <<>>
    /\ RecvGot(o).out = "Frame"
    /\ RecvGot(o).frame.kind \in kinds

\* Every Text or Binary frame the transport delivers is yielded by that
\* same poll as exactly one item: Ok(Item(v)) if the codec decodes the payload
\* to v, Err(Codec(e)) if decoding fails with e.  The frame is decoded once,
\* the transport is polled once, and the item is never a transport error.
C1_DataFrameYieldsOneItem ==
    (last.op = "recv" /\ GotFrame(last.out, {"Text", "Binary"})) =>
        LET f == RecvGot(last.out).frame
            d == Decode(codec, TextOrBinary(f.kind, f.body))
        IN  /\ last.out.ready
            /\ d.ok => last.out.res = Ok(Item(d.val.body[1]))
            /\ ~d.ok => last.out.res = ErrCodec(d.err)
            /\ Len(CallsTo(last.out, "ws.poll_next")) = 1
            /\ Len(CallsTo(last.out, "decode")) = 1
            /\ last.out.res.err # "Ws"

\* On concrete frames: the text "1" is the item 1 for the JSON codecs and
\* out of range for MessagePack; the byte 0x01 is the item 1 for MessagePack
\* and not JSON.
C1_Concrete ==
    (last.op = "recv" /\ GotFrame(last.out, {"Text", "Binary"})) =>
        LET f == RecvGot(last.out).frame IN
        /\ (f = Frame("Text", <<49>>) /\ codec # "MsgPackCodec")
               => last.out.res = Ok(Item(1))
        /\ (f = Frame("Text", <<49>>) /\ codec = "MsgPackCodec")
               => last.out.res = ErrCodec("range")
        /\ (f = Frame("Binary", <<1>>) /\ codec = "MsgPackCodec")
               => last.out.res = Ok(Item(1))
        /\ (f = Frame("Binary", <<1>>) /\ codec # "MsgPackCodec")
               => last.out.res = ErrCodec("syntax")

\* C1: both of the above: a delivered Text or Binary frame is yielded as
\* exactly one item, Ok(Item(v)) or Err(Codec(e)) as its decoding decides.
C1_Theorem == C1_DataFrameYieldsOneItem /\ C1_Concrete

\* A recv has yielded a decoded item after another one had yielded a codec error.
C1_Witness ==
    /\ last.op = "recv" /\ last.out.ready
    /\ last.out.res.tag = "Ok" /\ last.out.res.kind = "Item"
    /\ "recv.Codec" \in seen

\* C2: a send of Item(v) whose encode succeeds hands the transport exactly
\* one data frame with the encoded payload: a Text frame for TextJsonCodec, a
\* Binary frame for BinaryJsonCodec and MsgPackCodec; the frame the transport
\* accepts is that frame, appended to what it had accepted before.
C2_ItemBecomesOneDataFrame ==
    (last.op = "send" /\ last.msg.kind = "Item"
        /\ CallsTo(last.out, "encode") # <<>>
        /\ CallsTo(last.out, "encode")[1].out = "Ok") =>
        LET ss == CallsTo(last.out, "ws.start_send")
            v  == last.msg.body[1]
            payload == IF codec = "MsgPackCodec" THEN <<v>> ELSE <<48 + v>>
            kind    == IF codec = "TextJsonCodec" THEN "Text" ELSE "Binary"
        IN  /\ Len(ss) = 1
            /\ ss[1].frame = Frame(kind, payload)
            /\ Encode(codec, v).val.kind = kind
            /\ Len(CallsTo(last.out, "encode")) = 1
            /\ ss[1].out = "Ok" =>
                   /\ last.out.taken = <<Frame(kind, payload)>>
                   /\ wire # <<>> /\ wire[Len(wire)] = Frame(kind, payload)
            /\ ss[1].out = "Err" => last.out.taken = <<>>

\* A send of an Item has handed a Text frame to the transport, which took it.
C2_Witness ==
    /\ last.op = "send" /\ last.msg.kind = "Item"
    /\ last.out.taken # <<>> /\ last.out.taken[1].kind = "Text"
    /\ wire # <<>>

\* C3: a send of Ping(b), Pong(b) or Close(f) hands the transport exactly the
\* raw frame of the same variant with the same payload, never calls encode,
\* and never fails with Error::Codec.
C3_ControlSentUnmodified ==
    (last.op = "send" /\ last.msg.kind \in ControlKinds) =>
        LET ss == CallsTo(last.out, "ws.start_send") IN
        /\ CallsTo(last.out, "encode") = <<>>
        /\ last.out.res.err # "Codec"
        /\ Len(ss) <= 1
        /\ \A i \in DOMAIN ss : ss[i].frame = Frame(last.msg.kind, last.msg.body)
        /\ (CallsTo(last.out, "ws.poll_ready") # <<>>
              /\ CallsTo(last.out, "ws.poll_ready")[1].out = "Ok") => Len(ss) = 1
        /\ last.out.taken # <<>> =>
               /\ last.out.taken = <<Frame(last.msg.kind, last.msg.body)>>
               /\ wire # <<>> /\ wire[Len(wire)] = Frame(last.msg.kind, last.msg.body)

\* A send of a Ping has put its frame into the transport.
C3_Witness ==
    /\ last.op = "send" /\ last.msg.kind = "Ping"
    /\ last.out.taken = <<Frame("Ping", last.msg.body)>>
    /\ last.out.ready /\ last.out.res = OkUnit

\* C4: a Ping(b), Pong(b) or Close(f) frame from the transport is yielded by
\* that poll as Ok of the Message of the same variant with the same payload;
\* decode is not called and the result is never a codec error.
C4_ControlReceivedUnmodified ==
    (last.op = "recv" /\ GotFrame(last.out, ControlKinds)) =>
        LET f == RecvGot(last.out).frame IN
        /\ last.out.ready
        /\ last.out.res = Ok(Message(f.kind, f.body))
        /\ CallsTo(last.out, "decode") = <<>>
        /\ last.out.res.err # "Codec"

\* A recv has yielded the Pong the transport delivered.
C4_Witness ==
    /\ last.op = "recv" /\ GotFrame(last.out, {"Pong"})
    /\ last.out.res.kind = "Pong" /\ last.out.res.body = <<7>>

\* The raw frame a message stands for, stated from the codecs' formats.
ExpectedFrame(c, m) ==
    IF m.kind = "Item"
    THEN Frame(IF c = "TextJsonCodec" THEN "Text" ELSE "Binary",
               IF c = "MsgPackCodec" THEN <<m.body[1]>> ELSE <<48 + m.body[1]>>)
    ELSE Frame(m.kind, m.body)

TransportFailed(o) ==
    \E i \in DOMAIN o.calls :
        /\ o.calls[i].fn \in {"ws.poll_next", "ws.poll_ready", "ws.start_send",
                              "ws.poll_flush", "ws.poll_close"}
        /\ o.calls[i].out = "Err"

\* C5: a send whose encode fails returns Error::Codec, hands the transport no
\* frame and leaves the socket as it was; a later send on the same adapter
\* that the transport accepts appends exactly its frame to what the transport
\* held.  A failure of the transport's poll_ready, start_send or poll_flush
\* is returned as Error::Ws, never as Error::Codec.
C5_EncodeFailureIsolated ==
    [][SendStep =>
        LET o  == last'.out
            ss == CallsTo(o, "ws.start_send")
            pr == CallsTo(o, "ws.poll_ready")
        IN  /\ (spc = "feed" /\ pr # <<>> /\ pr[1].out = "Ok"
                  /\ smsg.kind = "Item" /\ ~Encode(codec, smsg.body[1]).ok) =>
                    /\ o.ready
                    /\ o.res = ErrCodec(Encode(codec, smsg.body[1]).err)
                    /\ ss = <<>> /\ o.taken = <<>>
                    /\ wire' = wire /\ ended' = ended
                    /\ spc' = "idle" /\ alive' = "open"
            /\ o.res.err = "Codec" =>
                    /\ smsg = Item(Unserializable)
                    /\ ss = <<>> /\ wire' = wire
            /\ TransportFailed(o) => (o.ready /\ o.res = ErrWs)
            /\ ("send.Codec" \in seen /\ ss # <<>> /\ ss[1].out = "Ok") =>
                    wire' = Append(wire, ExpectedFrame(codec, smsg))
    ]_vars

\* After a send that failed in encode, a later send has succeeded and its
\* frame is the only one the transport holds.
C5_Witness ==
    /\ "send.Codec" \in seen
    /\ last.op = "send" /\ last.out.ready /\ last.out.res = OkUnit
    /\ wire = <<ExpectedFrame(codec, last.msg)>>

\* C6: a recv whose decode fails yields Err(Codec(_)) as one item and leaves
\* the socket open and its stream not ended; a well-formed frame delivered
\* after such a failure is yielded decoded, as Ok(Item(_)).
C6_DecodeFailureIsolated ==
    [][RecvStep =>
        LET o == last'.out
            f == RecvGot(o).frame
            d == Decode(codec, TextOrBinary(f.kind, f.body))
        IN  /\ (GotFrame(o, {"Text", "Binary"}) /\ ~d.ok) =>
                    /\ o.ready /\ o.res = ErrCodec(d.err)
                    /\ ended' = ended /\ alive' = "open" /\ rpc' = "idle"
                    /\ "recv.Codec" \in seen'
            /\ ("recv.Codec" \in seen /\ GotFrame(o, {"Text", "Binary"}) /\ d.ok) =>
                    /\ o.ready /\ o.res = Ok(Item(d.val.body[1]))
                    /\ o.res.kind = "Item"
    ]_vars

\* After a codec error, a recv has yielded an item on the still open socket.
C6_Witness ==
    /\ "recv.Codec" \in seen /\ ~ended /\ alive = "open" /\ rpc = "idle"
    /\ last.op = "recv" /\ last.out.res.tag = "Ok" /\ last.out.res.kind = "Item"

\* C7: once the transport has reported the end of its stream, the recv that
\* saw it and every later recv return None: Ready, no error item, and the
\* end, once reported, stays.
C7_NoneAfterEnd ==
    /\ []((last.op = "recv" /\ RecvGot(last.out).out = "None")
            => (last.out.ready /\ last.out.res = None /\ ended))
    /\ [][ended => ended']_vars
    /\ [][(RecvStep /\ ended) => (last'.out.ready /\ last'.out.res = None)]_vars

\* A recv made after the end had been reported has returned None.
C7_Witness ==
    /\ "recv.AfterEnd" \in seen /\ ended /\ "Ws" \notin seen
    /\ last.op = "recv" /\ last.out.res = None

\* C8: recv returns None if and only if the transport's poll_next returned
\* None in that poll: not for a frame of any kind, a decode failure or a
\* transport error.
C8_NoneIffTransportNone ==
    last.op = "recv" =>
        /\ Len(CallsTo(last.out, "ws.poll_next")) = 1
        /\ (last.out.ready /\ last.out.res = None) <=> (RecvGot(last.out).out = "None")
        /\ RecvGot(last.out).out \in {"Frame", "Err"} =>
               (last.out.ready /\ last.out.res.tag \in {"Ok", "Err"})

\* A recv has yielded a Close frame as a message while the stream had not ended.
C8_Witness ==
    /\ last.op = "recv" /\ GotFrame(last.out, {"Close"})
    /\ last.out.res.tag = "Ok" /\ ~ended

\* C9 as stated: a transport error is not retried, is surfaced by the call
\* that met it, and after it no later recv yields a message and no later
\* send succeeds.
C9_Original ==
    /\ TransportFailed(last.out) => (last.out.ready /\ last.out.res = ErrWs)
    /\ ~("Ws" \in seen /\ last.op \in {"recv", "send"}
           /\ last.out.ready /\ last.out.res.tag = "Ok")

\* C9 amended: a transport error is not retried and is surfaced by the poll
\* that met it: the failed transport call is the last call of that poll and
\* the poll returns Error::Ws; and Error::Ws is returned for nothing else.
\* The adapter keeps no error state: after an Error::Ws a recv still polls
\* the transport once and returns what that poll gives.
C9_NoRetrySurfaced ==
    /\ \A i \in DOMAIN last.out.calls :
           (last.out.calls[i].out = "Err" /\ last.out.calls[i].fn # "encode"
               /\ last.out.calls[i].fn # "decode") =>
               /\ i = Len(last.out.calls)
               /\ last.out.ready /\ last.out.res = ErrWs
    /\ (last.out.ready /\ last.out.res = ErrWs) =>
           /\ last.out.calls # <<>>
           /\ last.out.calls[Len(last.out.calls)].out = "Err"
           /\ last.out.calls[Len(last.out.calls)].fn \notin {"encode", "decode"}
    /\ ("Ws" \in seen /\ last.op = "recv") =>
           /\ Len(CallsTo(last.out, "ws.poll_next")) = 1
           /\ GotFrame(last.out, ControlKinds) =>
                  last.out.res = Ok(Message(RecvGot(last.out).frame.kind,
                                            RecvGot(last.out).frame.body))

\* After an Error::Ws, a recv has yielded the Ping the transport delivered.
C9_Witness ==
    /\ "Ws" \in seen
    /\ last.op = "recv" /\ GotFrame(last.out, {"Ping"})
    /\ last.out.ready /\ last.out.res.tag = "Ok"

\* The phase of the adapter: Closing from the call of close() or from a recv
\* that yields a Close frame; Closed once close() has returned.
Phase ==
    IF alive = "closed" THEN "Closed"
    ELSE IF alive = "closing" \/ "recv.Close" \in seen THEN "Closing"
    ELSE "Open"

\* C10: while the adapter exists it moves Open -> Closing -> Closed and never
\* back; it leaves Open exactly when close() is called or a recv yields a
\* Close frame; and from Closed no step is possible: no frame is written, no
\* item is delivered, Closed is never left.
C10_Lifecycle ==
    [][(alive # "unwrapped" /\ alive' # "unwrapped") =>
        /\ <<Phase, Phase'>> \in {<<"Open", "Open">>, <<"Open", "Closing">>,
                                  <<"Closing", "Closing">>, <<"Closing", "Closed">>,
                                  <<"Closed", "Closed">>}
        /\ (Phase = "Open" /\ Phase' = "Closing") =>
               \/ alive = "open" /\ alive' = "closing"
               \/ RecvStep /\ GotFrame(last'.out, {"Close"}) /\ last'.out.res.kind = "Close"
        /\ (RecvStep /\ GotFrame(last'.out, {"Close"})) => Phase' = "Closing"
        /\ (alive = "open" /\ alive' = "closing") => Phase' = "Closing"
        /\ (Phase = "Closing" /\ Phase' = "Closed") => (last'.op = "close" /\ last'.out.ready)
        /\ Phase = "Closed" => UNCHANGED vars
    ]_vars

\* The peer's Close frame was received, close() was then called and has
\* returned: the adapter is Closed.
C10_Witness ==
    /\ alive = "closed" /\ "recv.Close" \in seen
    /\ last.op = "close" /\ last.out.ready

\* The steps of the close future.
CloseStep == alive = "closing" /\ last'.op = "close"

\* C11: close() is called at most once on an adapter; each poll of its
\* future makes exactly one call, the transport's close, and no codec call;
\* it returns Ok(()) or Error::Ws, never Error::Codec; a successful close has
\* written the transport's one Close frame; and from the call of close() on,
\* whether it succeeds or fails, no recv, send or into_inner takes place on
\* the adapter.
C11_CloseDelegatesAndConsumes ==
    [][/\ CloseStep =>
             LET o == last'.out IN
             /\ Len(o.calls) = 1 /\ o.calls[1].fn = "ws.poll_close"
             /\ CallsTo(o, "encode") = <<>> /\ CallsTo(o, "decode") = <<>>
             /\ o.res.err # "Codec"
             /\ o.ready => (o.res \in {OkUnit, ErrWs} /\ alive' = "closed")
             /\ o.ready <=> (o.calls[1].out # "Pending")
             /\ (o.calls[1].out = "Err") <=> (o.ready /\ o.res = ErrWs)
             /\ (o.calls[1].out = "Ok") => wire' = Append(wire, Frame("Close", <<>>))
             /\ (o.calls[1].out # "Ok") => wire' = wire
             /\ UNCHANGED <<rpc, spc, smsg, ended>>
       /\ (alive' = "closing" /\ alive # "closing") => (alive = "open" /\ rpc = "idle" /\ spc = "idle")
       /\ alive \in {"closing", "closed"} =>
             /\ alive' \in {"closing", "closed"}
             /\ last'.op = "close"
             /\ UNCHANGED <<rpc, spc, smsg, ended>>
       /\ alive = "closed" => UNCHANGED vars
    ]_vars

\* A close() that failed in the transport has returned Error::Ws and the
\* adapter is gone.
C11_Witness ==
    /\ alive = "closed"
    /\ last.op = "close" /\ last.out.ready /\ last.out.res = ErrWs
    /\ last.out.calls = <<Call("ws.poll_close", "Err", NoFrame)>>

\* C12 as stated: for every value whose Serialize succeeds and each codec,
\* encode succeeds and decode of its payload returns the value.
C12_Original ==
    /\ (probe.v # Unserializable /\ probe.enc # NotRun) => probe.enc.ok
    /\ (probe.v # Unserializable /\ probe.dec # NotRun) => probe.dec = CodecOk(Item(probe.v))

\* C12 amended: for every value the format represents (here the integers)
\* and each codec, encode succeeds, decode of its payload returns the value,
\* and the Item sent to a peer adapter with the same codec is yielded there
\* as Ok(Item(v)).  A non-finite float is written by the two JSON codecs as
\* null, which their decode rejects; MsgPackCodec returns it unchanged.
C12_RoundTrip ==
    /\ (probe.v \in GoodValues /\ probe.enc # NotRun) => probe.enc.ok
    /\ (probe.v \in GoodValues /\ probe.dec # NotRun) => probe.dec = CodecOk(Item(probe.v))
    /\ (probe.v \in GoodValues /\ probe.peer.ready) =>
           /\ probe.peer.res = Ok(Item(probe.v))
           /\ Len(CallsTo(probe.peer, "decode")) = 1
    /\ (probe.v = NonFinite /\ probe.enc # NotRun) =>
           /\ probe.enc.ok
           /\ codec # "MsgPackCodec" => probe.enc.val.body = JsonNull
    /\ (probe.v = NonFinite /\ probe.dec # NotRun) =>
           IF codec = "MsgPackCodec" THEN probe.dec = CodecOk(Item(NonFinite))
           ELSE probe.dec = CodecErr("type")
    /\ (probe.v = NonFinite /\ probe.peer.ready /\ codec # "MsgPackCodec") =>
           probe.peer.res = ErrCodec("type")

\* The value 1 has been encoded by BinaryJsonCodec, decoded back to 1, and
\* has arrived at the peer.
C12_Witness ==
    /\ codec = "BinaryJsonCodec" /\ probe.v = 1
    /\ probe.enc = CodecOk(TextOrBinary("Binary", <<49>>))
    /\ probe.dec = CodecOk(Item(1))
    /\ probe.peer.ready /\ probe.peer.res = Ok(Item(1))

\* C13: for every byte content b that is well-formed UTF-8 and each codec,
\* decode(Text(b)) and decode(Binary(b)) give the same result, a value or a
\* failure; and for the two JSON codecs the bytes of the text of v, as a
\* Binary payload or as a Text payload, decode to v.
C13_DecodeEitherVariant ==
    /\ (probe.text # NotRun /\ probe.binary # NotRun) => probe.text = probe.binary
    /\ probe.text # NotRun => IsUtf8(probe.b)
    /\ \A v \in GoodValues : \A c \in {"TextJsonCodec", "BinaryJsonCodec"} :
           LET bytes == TextJsonCodec_encode(v).val.body IN
           /\ Decode(c, TextOrBinary("Binary", bytes)) = CodecOk(Item(v))
           /\ Decode(c, TextOrBinary("Text", bytes)) = CodecOk(Item(v))
    /\ (probe.b = <<ByteSpace, Byte0 + 1>> /\ probe.binary # NotRun) =>
           probe.binary = (IF codec = "MsgPackCodec" THEN CodecErr("range")
                           ELSE CodecOk(Item(1)))

\* TextJsonCodec has decoded the bytes " 1" to the value 1 from a Text payload
\* and from a Binary payload.
C13_Witness ==
    /\ codec = "TextJsonCodec" /\ probe.b = <<ByteSpace, Byte0 + 1>>
    /\ probe.text = CodecOk(Item(1)) /\ probe.binary = CodecOk(Item(1))

\* The requests on which on_upgrade(callback) has been called, and those
\* whose upgrade has come to its end.
Upgraded(r) == up[r].stage \in {"upgrading", "running", "done", "failed"}
Settled(r)  == up[r].stage \in {"done", "failed"}

\* C14 as stated: on every request on which on_upgrade was called the
\* callback runs exactly once (never twice, never not at all), after the raw
\* socket is established and with that request's socket.
C14_Original ==
    \A r \in Requests : Upgraded(r) =>
        /\ up[r].ran <= 1
        /\ up[r].ran = 1 => (r \in est /\ up[r].socket = r)
        /\ Settled(r) => up[r].ran = 1

\* C14 amended: the callback of a request runs at most once; it has run
\* exactly when the request's raw socket was established and the closure was
\* called with it, and then its adapter wraps that request's socket; it has
\* not run when the handshake failed or on_upgrade was not called; and the
\* callbacks that have run hold different sockets.  Every step is the step
\* of one request and leaves the other requests as they were.
C14_CallbackWithOwnSocket ==
    /\ [](\A r \in Requests :
           /\ up[r].ran <= 1
           /\ (up[r].ran = 1) <=> (up[r].stage \in {"running", "done"})
           /\ up[r].ran = 1 => (r \in est /\ up[r].socket = r)
           /\ up[r].ran = 0 => up[r].socket = 0
           /\ up[r].stage = "failed" => (up[r].ran = 0 /\ r \notin est)
           /\ r \in est => Upgraded(r))
    /\ [](\A r, q \in Requests :
           (r # q /\ up[r].socket # 0) => up[r].socket # up[q].socket)
    /\ [][\E r \in Requests : \A q \in Requests \ {r} :
              up'[q] = up[q] /\ (q \in est' <=> q \in est)]_vars
    /\ [][\A r \in Requests : up'[r].ran > up[r].ran =>
              (up[r].stage = "upgrading" /\ r \in est /\ up[r].ran = 0)]_vars

\* Two requests upgraded side by side: the callback of the second has
\* completed and that of the first is running, each with its own socket.
C14_Witness ==
    /\ up[1].stage = "running" /\ up[1].socket = 1
    /\ up[2].stage = "done" /\ up[2].socket = 2
    /\ up[1].ran = 1 /\ up[2].ran = 1

\* The transport's polls and its start_send among the calls of a poll.
TransportFns ==
    {"ws.poll_next", "ws.poll_ready", "ws.start_send", "ws.poll_flush", "ws.poll_close"}
LastCall(o) == o.calls[Len(o.calls)]

\* C19: a poll of the adapter returns Pending exactly when the transport's
\* poll it made last returned Pending: poll_next with the transport's
\* poll_next, poll_ready, poll_flush and poll_close with their counterparts;
\* a codec call never suspends; a frame the transport yields is returned,
\* decoded, by that same poll; and a poll calls each of the transport's
\* functions at most once, poll_next and poll_close exactly once.
C19_SuspensionAtTransportOnly ==
    /\ last.op \in {"recv", "send", "close"} =>
           /\ last.out.calls # <<>>
           /\ ~last.out.ready <=> (LastCall(last.out).out = "Pending")
           /\ ~last.out.ready => LastCall(last.out).fn \in TransportFns
           /\ \A i \in DOMAIN last.out.calls :
                  /\ last.out.calls[i].out = "Pending" => i = Len(last.out.calls)
                  /\ last.out.calls[i].fn \in {"encode", "decode"} =>
                         last.out.calls[i].out \in {"Ok", "Err"}
           /\ \A fn \in TransportFns : Len(CallsTo(last.out, fn)) <= 1
    /\ last.op = "recv" =>
           /\ Len(CallsTo(last.out, "ws.poll_next")) = 1
           /\ RecvGot(last.out).out = "Frame" =>
                  (last.out.ready /\ last.out.res.tag \in {"Ok", "Err"})
    /\ last.op = "close" => last.out.calls[1].fn = "ws.poll_close" /\ Len(last.out.calls) = 1
    /\ \A o \in PollOutcomes :
           /\ ~poll_ready(o).ready <=> (o = "Pending")
           /\ ~poll_flush(o).ready <=> (o = "Pending")
           /\ ~poll_close(o).ready <=> (o = "Pending")
           /\ Len(poll_ready(o).calls) = 1 /\ poll_ready(o).calls[1].fn = "ws.poll_ready"
           /\ Len(poll_flush(o).calls) = 1 /\ poll_flush(o).calls[1].fn = "ws.poll_flush"
           /\ Len(poll_close(o).calls) = 1 /\ poll_close(o).calls[1].fn = "ws.poll_close"

\* A send has encoded its item, handed the frame to the transport and is
\* suspended on the transport's flush.
C19_Witness ==
    /\ last.op = "send" /\ ~last.out.ready
    /\ CallsTo(last.out, "encode") # <<>>
    /\ LastCall(last.out) = Call("ws.poll_flush", "Pending", NoFrame)
    /\ spc = "flush"

\* The place of the first call to fn among the calls of a poll, 0 for none.
PlaceOf(o, fn) ==
    IF \E i \in DOMAIN o.calls : o.calls[i].fn = fn
    THEN CHOOSE i \in DOMAIN o.calls :
             o.calls[i].fn = fn /\ \A j \in 1 .. i - 1 : o.calls[j].fn # fn
    ELSE 0

\* C20: in a send the transport's start_send is called only after its
\* poll_ready has returned Ok, and, for an Item, after encode has returned
\* the payload, with the frame of the message; Ok(()) is returned only by a
\* poll whose last call is the transport's poll_flush returning Ok, after
\* the frame has been handed over; and Sink::start_send by itself calls
\* neither poll_ready nor poll_flush.
C20_ReadyWriteFlush ==
    /\ [](last.op = "send" =>
             LET o == last.out IN
             /\ PlaceOf(o, "ws.start_send") > 0 =>
                    /\ PlaceOf(o, "ws.poll_ready") > 0
                    /\ PlaceOf(o, "ws.poll_ready") < PlaceOf(o, "ws.start_send")
                    /\ o.calls[PlaceOf(o, "ws.poll_ready")].out = "Ok"
                    /\ o.calls[PlaceOf(o, "ws.start_send")].frame = ExpectedFrame(codec, last.msg)
                    /\ last.msg.kind = "Item" =>
                           /\ PlaceOf(o, "encode") > 0
                           /\ PlaceOf(o, "encode") < PlaceOf(o, "ws.start_send")
                           /\ o.calls[PlaceOf(o, "encode")].out = "Ok"
                    /\ last.msg.kind # "Item" => PlaceOf(o, "encode") = 0
             /\ PlaceOf(o, "ws.poll_flush") > 0 =>
                    /\ PlaceOf(o, "ws.poll_flush") = Len(o.calls)
                    /\ PlaceOf(o, "ws.start_send") > 0 =>
                           o.calls[PlaceOf(o, "ws.start_send")].out = "Ok"
             /\ (o.ready /\ o.res = OkUnit) =>
                    /\ LastCall(o) = Call("ws.poll_flush", "Ok", NoFrame)
                    /\ wire # <<>> /\ wire[Len(wire)] = ExpectedFrame(codec, last.msg))
    /\ [](spc = "flush" => (wire # <<>> /\ wire[Len(wire)] = ExpectedFrame(codec, smsg)))
    /\ [][SendStep =>
             /\ (last'.out.ready /\ last'.out.res = OkUnit) =>
                    (spc = "flush" \/ last'.out.taken = <<ExpectedFrame(codec, smsg)>>)
             /\ spc = "flush" => last'.out.calls = <<Call("ws.poll_flush", LastCall(last'.out).out, NoFrame)>>
             /\ spc = "flush" => wire' = wire
       ]_vars
    /\ [](\A m \in SendMsgs : \A so \in {"Ok", "Err"} :
             LET o == start_send(codec, m, so) IN
             /\ PlaceOf(o, "ws.poll_ready") = 0 /\ PlaceOf(o, "ws.poll_flush") = 0
             /\ (so = "Ok" /\ m # Item(Unserializable)) =>
                    (o.res = OkUnit /\ o.taken = <<ExpectedFrame(codec, m)>>))

\* A send has returned Ok(()) from a poll that only flushed: the frame had
\* been handed to the transport by an earlier poll, whose flush was pending.
C20_Witness ==
    /\ last.op = "send" /\ last.out.ready /\ last.out.res = OkUnit
    /\ last.out.calls = <<Call("ws.poll_flush", "Ok", NoFrame)>>
    /\ wire = <<ExpectedFrame(codec, last.msg)>>

\* --------------------------------------------------- claims on SpecStream
\* The steps of SpecStream: a poll of the recv future, a poll of the send
\* future, the drop of either, the call of into_inner.
StreamRecvStep == RecvStep /\ arrived' = arrived
StreamSendStep == SendStep /\ arrived' = arrived
DropRecvStep   == rpc = "pending" /\ rpc' = "idle" /\ last'.op = "drop recv"
DropSendStep   == spc # "idle" /\ spc' = "idle" /\ last'.op = "drop send"
UnwrapStep     == alive = "open" /\ alive' = "unwrapped"

\* The frames among what the transport's poll_next has produced.
FramesOf(rs) ==
    LET fs == SelectSeq(rs, LAMBDA x : x.out = "Frame") IN
    [i \in 1 .. Len(fs) |-> fs[i].frame]

\* What recv is to yield for what the transport produced, stated from the
\* formats: an error as Error::Ws, a Ping as Ping, the text of a number as
\* its Item for the JSON codecs and as a codec error for MessagePack.
ExpectedItem(c, x) ==
    IF x.out = "Err" THEN ErrWs
    ELSE IF x.frame.kind \in ControlKinds THEN Ok(Message(x.frame.kind, x.frame.body))
    ELSE IF c = "MsgPackCodec" THEN ErrCodec("range")
    ELSE Ok(Item(x.frame.body[1] - 48))

\* The adapter holds no frame: what it took from the transport it has
\* yielded, what it was given to send and the transport accepted is on the
\* wire, and the frames the peer sent are those read followed by those the
\* transport still holds.
NothingHeld ==
    /\ Len(yielded) = Len(rawIn)
    /\ Len(wire) = Len(started)
    /\ FramesOf(rawIn) \o inq = arrived

\* C15: into_inner is called only between operations, when no recv or send
\* future exists; the adapter then holds no frame, so the socket it returns
\* has read exactly the frames that were yielded, still holds the others in
\* order, and has written exactly the frames of the messages sent; into_inner
\* changes nothing of the socket; and after it no operation of the adapter
\* takes place.
C15_IntoInnerLeavesNothing ==
    /\ []((alive = "unwrapped" \/ (rpc = "idle" /\ spc = "idle")) =>
             (NothingHeld /\ (spc = "idle" => smsg = NoMsg)))
    /\ [](alive = "unwrapped" =>
             /\ rpc = "idle" /\ spc = "idle" /\ smsg = NoMsg
             /\ \A k \in DOMAIN yielded : yielded[k] = ExpectedItem(codec, rawIn[k])
             /\ \A k \in DOMAIN wire : wire[k] = ExpectedFrame(codec, started[k]))
    /\ [][UnwrapStep =>
             /\ rpc = "idle" /\ spc = "idle"
             /\ UNCHANGED <<ended, wire, inq, arrived, rawIn, yielded, started>>]_vars
    /\ [][alive = "unwrapped" =>
             UNCHANGED <<alive, rpc, spc, smsg, last, seen, wire, rawIn, yielded, started>>]_vars

\* The adapter was unwrapped after it had yielded one frame and sent one:
\* a later frame of the peer is still in the socket, unread.
C15_Witness ==
    /\ alive = "unwrapped"
    /\ Len(yielded) = 1 /\ Len(wire) = 1
    /\ inq # <<>> /\ Len(arrived) = 2 /\ inq = <<arrived[2]>>

\* C16: dropping a recv or send future before it resolves changes nothing
\* of the socket.  A recv that is suspended has taken nothing from the
\* transport, and the recv after a dropped one yields the oldest frame the
\* transport holds.  A send hands the transport the whole frame of its
\* message or nothing: nothing while it still holds the message, the whole
\* frame once; and a send after a dropped one appends exactly its frame.
C16_CancellationSafe ==
    /\ [][/\ DropRecvStep =>
               UNCHANGED <<alive, ended, wire, inq, arrived, rawIn, yielded, started, spc, smsg>>
          /\ DropSendStep =>
               UNCHANGED <<alive, ended, wire, inq, arrived, rawIn, yielded, started, rpc>>
          /\ (StreamRecvStep /\ ~last'.out.ready) =>
               UNCHANGED <<inq, rawIn, yielded>>
          /\ (StreamRecvStep /\ "recv.Dropped" \in seen /\ inq # <<>>) =>
               /\ last'.out.ready
               /\ inq' = Tail(inq)
               /\ yielded' = Append(yielded,
                       ExpectedItem(codec, [out |-> "Frame", frame |-> Head(inq)]))
          /\ StreamSendStep =>
               \/ wire' = wire
               \/ spc = "feed" /\ wire' = Append(wire, ExpectedFrame(codec, smsg))
          /\ (StreamSendStep /\ spc' = "feed") => wire' = wire
       ]_vars
    /\ [](rpc = "pending" => Len(yielded) = Len(rawIn))
    /\ [](spc = "feed" => Len(wire) = Len(started))
    /\ [](spc = "flush" => (wire # <<>> /\ wire[Len(wire)] = ExpectedFrame(codec, smsg)))

\* A recv future and a send future have been dropped, and afterwards a recv
\* has yielded a frame and a send has put its frame on the wire.
C16_Witness ==
    /\ "recv.Dropped" \in seen /\ "send.Dropped" \in seen
    /\ last.op = "recv" /\ last.out.ready /\ last.out.res.tag = "Ok"
    /\ yielded # <<>> /\ wire # <<>>
    /\ rpc = "idle" /\ spc = "idle"

\* C17: a poll of the recv future leaves the outbound side as it was and
\* calls nothing of the sink; a poll of the send future leaves the inbound
\* side as it was and calls nothing of the stream; and however the polls of
\* the two futures interleave, what was yielded is determined by what the
\* transport produced, and what is on the wire by the messages sent.
C17_DirectionsIndependent ==
    /\ [][/\ StreamRecvStep =>
               /\ UNCHANGED <<wire, started, spc, smsg>>
               /\ last'.out.taken = <<>>
               /\ \A i \in DOMAIN last'.out.calls :
                      last'.out.calls[i].fn \in {"ws.poll_next", "decode"}
          /\ StreamSendStep =>
               /\ UNCHANGED <<inq, rawIn, yielded, ended, rpc>>
               /\ \A i \in DOMAIN last'.out.calls :
                      last'.out.calls[i].fn \in
                          {"ws.poll_ready", "encode", "ws.start_send", "ws.poll_flush"}
       ]_vars
    /\ [](\A k \in DOMAIN yielded :
             k <= Len(rawIn) /\ yielded[k] = ExpectedItem(codec, rawIn[k]))
    /\ [](\A k \in DOMAIN wire :
             k <= Len(started) /\ wire[k] = ExpectedFrame(codec, started[k]))

\* A recv has resolved with a frame while a send future was in flight, its
\* frame handed to the transport and its flush pending.
C17_Witness ==
    /\ last.op = "recv" /\ last.out.ready /\ last.out.res.tag = "Ok"
    /\ spc = "flush" /\ wire # <<>> /\ yielded # <<>>
    /\ inq # <<>>

\* C18: the k-th result recv has returned is that of the k-th frame or error
\* the transport produced, and there are as many; the k-th frame on the wire
\* is that of the k-th message whose start_send succeeded, and there are as
\* many; and the frames the transport produced are the frames the peer sent,
\* in order, up to those it still holds.
C18_OrderPreservingProjection ==
    /\ Len(yielded) = Len(rawIn)
    /\ \A k \in DOMAIN yielded : yielded[k] = ExpectedItem(codec, rawIn[k])
    /\ Len(wire) = Len(started)
    /\ \A k \in DOMAIN wire : wire[k] = ExpectedFrame(codec, started[k])
    /\ FramesOf(rawIn) \o inq = arrived
    /\ \A k \in DOMAIN started : started[k] # Item(Unserializable)

\* Two different frames have been yielded and two different frames written,
\* each pair in the order of its source.
C18_Witness ==
    /\ Len(yielded) = 2 /\ yielded[1] # yielded[2]
    /\ Len(wire) = 2 /\ wire[1] # wire[2]
    /\ arrived = <<rawIn[1].frame, rawIn[2].frame>>
    /\ "send.Dropped" \notin seen

====
